---- MODULE Spec2Model ----
(***************************************************************************)
(* Model of travel-feed (src/app.py): a Flask application that keeps two   *)
(* JSON documents in a Cloud Storage bucket, db.json (the posts) and       *)
(* subscribers.json, and rewrites them in full on every mutation.          *)
(*                                                                         *)
(* Each request is handled by one of the processes in Procs.  A handler is *)
(* cut into steps at its accesses to the shared blobs: everything a        *)
(* handler computes between two blob accesses is local and is folded into  *)
(* the step of the access before which it runs.                            *)
(*                                                                         *)
(* A Python dict is a function from key strings to values, so that an      *)
(* optional key is a key outside the DOMAIN.  A str is a TLA+ string where *)
(* the program only stores and compares it, and a sequence of one-letter   *)
(* strings where the program looks inside it (the e-mail addresses).       *)
(***************************************************************************)
EXTENDS Integers, Sequences, FiniteSets, TLC

(* ----------------------------- bounds ---------------------------------- *)

\* Number of requests the server receives in one behaviour.
MaxRequests == 3

\* The request workers (concurrent handlers of the WSGI server).
Procs == {"r1", "r2"}

VARIABLES
    posts_blob,     \* the db.json object of the bucket
    subs_blob,      \* the subscribers.json object of the bucket
    objects,        \* keys of the media objects written through the service
    uuid_next,      \* the next value uuid.uuid4() returns
    received,       \* the number of requests received so far
    mail_env,       \* whether EMAIL and EMAIL_PASSWORD are set in os.environ
    pc,             \* position of each worker inside its handler
    req,            \* the last request a worker received
    posts,          \* local variable posts of add / edit_post / delete_post
    new_post,       \* local variable new_post of add
    subscribers,    \* local variable subscribers of add / subscribe / unsubscribe
    idx,            \* position of the for loop of add in subscribers
    attempts,       \* delivery attempts made by the current add request
    outcome,        \* the response to req, "pending" while it is handled
    body            \* the JSON body of the response of signed_url

vars == <<posts_blob, subs_blob, objects, uuid_next, received, mail_env, pc, req, posts,
          new_post, subscribers, idx, attempts, outcome, body>>

(* --------------------------- dict helpers ------------------------------ *)

Has(d, k) == k \in DOMAIN d

\* d[k] = v
Put(d, k, v) == (k :> v) @@ d

\* d.pop(k, None)
Pop(d, k) == [f \in DOMAIN d \ {k} |-> d[f]]

\* request.form.get(k) of a key the client did not send
None == "None"

\* (value or "")
OrEmpty(s) == IF s = None THEN "" ELSE s

(* ------------------------ dates and their texts ------------------------ *)

\* A datetime value is a number of minutes.  Its field in a post is
\* [kind, v]: kind "obj" is a datetime.datetime object, kind "T" the text of
\* isoformat() ("2024-05-01T10:00:00"), kind "sp" the text of str()
\* ("2024-05-01 10:00:00").
MinutesPerDay == 1440

DateOrdinal == ("2024-05-01" :> 1) @@ ("2024-05-02" :> 2)

TimeMinutes == ("10:00" :> 600)

ParseError == -1

\* a parser that takes the first day at 00:00 for what it cannot read
StrptimeLenient(date_str, time_str) ==
    (IF date_str \in DOMAIN DateOrdinal THEN DateOrdinal[date_str] ELSE 1) * MinutesPerDay
    + (IF time_str \in DOMAIN TimeMinutes THEN TimeMinutes[time_str] ELSE 0)

\* datetime.datetime.strptime(f"{date_str} {time_str}", "%Y-%m-%d %H:%M")
Strptime(date_str, time_str) ==
    IF date_str \in DOMAIN DateOrdinal /\ time_str \in DOMAIN TimeMinutes
    THEN DateOrdinal[date_str] * MinutesPerDay + TimeMinutes[time_str]
    ELSE ParseError

\* datetime.isoformat()
IsoFormat(v) == [kind |-> "T", v |-> v]

\* a conversion that writes the date only
StrOfDate(v) == [kind |-> "sp", v |-> (v \div MinutesPerDay) * MinutesPerDay]

\* str(datetime), what json.dumps(default=str) writes for a datetime object
StrOfDatetime(v) == [kind |-> "sp", v |-> v]

\* datetime.datetime.fromisoformat(text): accepts both separators
FromIsoFormat(d) == [kind |-> "obj", v |-> d.v]

\* format_datetime_fr(dt): "Le {day} {Month} {year} à {hour}h{minute:02d}"
format_datetime_fr(v) ==
    [day |-> v \div MinutesPerDay, month |-> "Mai", year |-> 2024,
     hour |-> (v % MinutesPerDay) \div 60, minute |-> v % 60]

(* ------------------------------ floats --------------------------------- *)

\* str.strip() on the latitude / longitude texts of the forms
StripText(s) ==
    CASE s = " "       -> ""
      [] s = " 48.85 " -> "48.85"
      [] OTHER         -> s

\* float(text) in hundredths; the texts outside the table raise ValueError
FloatTable == ("48.85" :> 4885) @@ ("2.35" :> 235)

FloatParses(s) == s \in DOMAIN FloatTable

(* ------------------------------- media --------------------------------- *)

\* A media entry of the document is either a dict {url, description} or,
\* in documents written by old versions, a bare str: [str |-> url].
IsBareString(item) == DOMAIN item = {"str"}

\* a normalization that takes the extension of the object as the description
NormalizeCaptioned(item) ==
    IF IsBareString(item) THEN [url |-> item.str, description |-> item.str.key.ext] ELSE item

\* get_posts, lines 62-70
NormalizeItem(item) ==
    IF IsBareString(item) THEN [url |-> item.str, description |-> ""] ELSE item

NormalizeMedia(media) == [i \in 1..Len(media) |-> NormalizeItem(media[i])]

(* ------------------------- the posts document -------------------------- *)

NoBlob == [exists |-> FALSE, data |-> <<>>]

Blob(data) == [exists |-> TRUE, data |-> data]

\* get_posts, lines 58-70: the work done on one record
LoadPost(raw) ==
    LET dt == FromIsoFormat(raw.datetime)
        p1 == Put(Put(raw, "datetime", dt), "display_datetime", format_datetime_fr(dt.v))
    IN  IF Has(p1, "media") THEN Put(p1, "media", NormalizeMedia(p1.media)) ELSE p1

\* a sort that forgets reverse=True
InsertAscending(acc, x) ==
    LET k == Cardinality({i \in 1..Len(acc) : acc[i].datetime.v <= x.datetime.v})
    IN  SubSeq(acc, 1, k) \o <<x>> \o SubSeq(acc, k + 1, Len(acc))

\* sorted(..., key=datetime, reverse=True) places x behind every element
\* whose key is greater or equal (the sort is stable)
InsertDesc(acc, x) ==
    LET k == Cardinality({i \in 1..Len(acc) : acc[i].datetime.v >= x.datetime.v})
    IN  SubSeq(acc, 1, k) \o <<x>> \o SubSeq(acc, k + 1, Len(acc))

RECURSIVE SortedDesc(_)
SortedDesc(s) ==
    IF s = <<>> THEN <<>>
    ELSE InsertDesc(SortedDesc(SubSeq(s, 1, Len(s) - 1)), s[Len(s)])

\* get_posts()
get_posts(blob) ==
    IF ~blob.exists THEN <<>>
    ELSE SortedDesc([i \in 1..Len(blob.data) |-> LoadPost(blob.data[i])])

\* json.dumps(posts, default=str): a datetime object is written as str(dt)
DumpPost(p) ==
    IF p.datetime.kind = "obj" THEN Put(p, "datetime", StrOfDatetime(p.datetime.v)) ELSE p

\* a save that keeps the stored posts which the saved list does not hold
save_posts_merging(ps) ==
    LET kept(r) == \A i \in 1..Len(ps) : ps[i].id # r.id
    IN  Blob(SelectSeq(posts_blob.data, kept) \o [i \in 1..Len(ps) |-> DumpPost(ps[i])])

\* save_posts(posts): the new content of db.json
save_posts(ps) == Blob([i \in 1..Len(ps) |-> DumpPost(ps[i])])

(* --------------------------- media uploads ----------------------------- *)

\* An object key: f"{uuid.uuid4()}{ext}" is [uid |-> n, base |-> "", ext],
\* a name chosen by a client is [uid |-> 0, base, ext].
UuidKey(n, ext) == [uid |-> n, base |-> "", ext |-> ext]

\* blob.public_url
PublicUrl(key) == [bucket |-> "travel-feed", key |-> key]

\* A file name is [base, ext]; os.path.splitext(name)[1] is its ext.
NoFileName == [base |-> "", ext |-> ""]

\* lines 164-172 and 265-273: the items of the direct-to-GCS path
UploadedItems(urls, descs) ==
    [i \in 1..Len(urls) |->
        [url |-> urls[i], description |-> IF i <= Len(descs) THEN descs[i] ELSE ""]]

\* number of files before position i that carry a file name
NamedBefore(files, i) == Cardinality({j \in 1..(i - 1) : files[j] # NoFileName})

NamedFiles(files) == NamedBefore(files, Len(files) + 1)

\* lines 177-188 and 278-290: the items of the traditional upload, the first
\* named file taking uuid u, the next one u + 1, ...
RECURSIVE InlineItems(_, _, _, _)
InlineItems(files, descs, u, i) ==
    IF i > Len(files) THEN <<>>
    ELSE (IF files[i] # NoFileName
          THEN <<[url |-> PublicUrl(UuidKey(u + NamedBefore(files, i), files[i].ext)),
                  description |-> IF i <= Len(descs) THEN descs[i] ELSE ""]>>
          ELSE <<>>) \o InlineItems(files, descs, u, i + 1)

\* the media items a form adds (lines 159-188, 261-290)
FormItems(form, u) ==
    IF form.uploaded_media_url # <<>>
    THEN UploadedItems(form.uploaded_media_url, form.uploaded_media_description)
    ELSE InlineItems(form.media, form.media_description, u, 1)

\* the uuids the media of a form consume
FormUuids(form) == IF form.uploaded_media_url # <<>> THEN 0 ELSE NamedFiles(form.media)

\* the objects the media of a form write into the bucket
FormObjects(form, u) ==
    IF form.uploaded_media_url # <<>> THEN {}
    ELSE LET items == InlineItems(form.media, form.media_description, u, 1)
         IN  {items[i].url.key : i \in 1..Len(items)}

(* ----------------------- the workers' local state ---------------------- *)

Unbound == [unbound |-> TRUE]

NoReq == [handler |-> "", method |-> "", post_id |-> 0, email |-> <<>>]

\* the handler of worker p returns result; req[p] stays until the worker
\* receives its next request
Respond(p, result) ==
    /\ pc' = [pc EXCEPT ![p] = "idle"]
    /\ UNCHANGED req
    /\ outcome' = [outcome EXCEPT ![p] = result]
    /\ posts' = [posts EXCEPT ![p] = <<>>]
    /\ new_post' = [new_post EXCEPT ![p] = Unbound]
    /\ subscribers' = [subscribers EXCEPT ![p] = <<>>]
    /\ idx' = [idx EXCEPT ![p] = 0]

\* Flask dispatches a request to its view function
Receive(p, r) ==
    /\ pc[p] = "idle"
    /\ received < MaxRequests
    /\ received' = received + 1
    /\ pc' = [pc EXCEPT ![p] = "start"]
    /\ req' = [req EXCEPT ![p] = r]
    /\ outcome' = [outcome EXCEPT ![p] = "pending"]
    /\ attempts' = [attempts EXCEPT ![p] = <<>>]
    /\ body' = [body EXCEPT ![p] = Unbound]
    /\ UNCHANGED <<posts_blob, subs_blob, objects, uuid_next, mail_env, posts,
                   new_post, subscribers, idx>>

(* ------------------------------- add ----------------------------------- *)

\* lines 205-213: float(lat_str) is stored before float(lng_str) is tried
AddGeo(post, lat_str, lng_str) ==
    IF lat_str # "" /\ lng_str # ""
    THEN IF ~FloatParses(lat_str) THEN post
         ELSE IF ~FloatParses(lng_str) THEN Put(post, "latitude", FloatTable[lat_str])
         ELSE Put(Put(post, "latitude", FloatTable[lat_str]), "longitude", FloatTable[lng_str])
    ELSE post

\* a post numbered by the length of the stored list instead of a uuid
NewPostNumbered(form, id, media_items) ==
    AddGeo([id |-> Len(posts_blob.data) + 1, city |-> form.city,
            datetime |-> IsoFormat(Strptime(form.date, form.time)),
            text |-> form.text, media |-> media_items],
           StripText(OrEmpty(form.latitude)), StripText(OrEmpty(form.longitude)))

\* a post that takes the smallest id that no stored post has
NewPostRecycled(form, id, media_items) ==
    LET stored == {posts_blob.data[i].id : i \in 1..Len(posts_blob.data)}
        free   == CHOOSE k \in 1..id : k \notin stored /\ \A j \in 1..(k - 1) : j \in stored
    IN  AddGeo([id |-> free, city |-> form.city,
                datetime |-> IsoFormat(Strptime(form.date, form.time)),
                text |-> form.text, media |-> media_items],
               StripText(OrEmpty(form.latitude)), StripText(OrEmpty(form.longitude)))

\* lines 197-213
NewPost(form, id, media_items) ==
    AddGeo([id |-> id, city |-> form.city,
            datetime |-> IsoFormat(Strptime(form.date, form.time)),
            text |-> form.text, media |-> media_items],
           StripText(OrEmpty(form.latitude)), StripText(OrEmpty(form.longitude)))

\* GET /add
AddGet(p) ==
    /\ pc[p] = "start" /\ req[p].handler = "add" /\ req[p].method = "GET"
    /\ Respond(p, "render:add.html")
    /\ UNCHANGED <<posts_blob, subs_blob, objects, uuid_next, mail_env, received, body, attempts>>

\* POST /add, lines 158-216: the uploads, the new post, the load
AddStart(p, form) ==
    /\ pc[p] = "start" /\ req[p].handler = "add" /\ req[p].method = "POST"
    /\ objects' = objects \cup FormObjects(form, uuid_next)
    /\ IF Strptime(form.date, form.time) = ParseError
       THEN /\ uuid_next' = uuid_next + FormUuids(form)
            /\ Respond(p, "error:500")
            /\ UNCHANGED <<posts_blob, subs_blob, mail_env, received, body, attempts>>
       ELSE LET post == NewPost(form, uuid_next + FormUuids(form),
                                FormItems(form, uuid_next))
            IN  /\ uuid_next' = uuid_next + FormUuids(form) + 1
                /\ new_post' = [new_post EXCEPT ![p] = post]
                /\ posts' = [posts EXCEPT ![p] = Append(get_posts(posts_blob), post)]
                /\ pc' = [pc EXCEPT ![p] = "save"]
                /\ UNCHANGED <<posts_blob, subs_blob, mail_env, received, body, req, subscribers,
                               idx, attempts, outcome>>

\* an add that goes on to the notifications without having saved
SavePostsSkipped(p) ==
    /\ pc[p] = "save"
    /\ posts_blob' = IF req[p].handler = "add" THEN posts_blob ELSE save_posts(posts[p])
    /\ IF req[p].handler = "add"
       THEN /\ pc' = [pc EXCEPT ![p] = "notify"]
            /\ posts' = [posts EXCEPT ![p] = <<>>]
            /\ UNCHANGED <<req, new_post, subscribers, idx, outcome>>
       ELSE Respond(p, "redirect:edit_list")
    /\ UNCHANGED <<subs_blob, objects, uuid_next, mail_env, received, body, attempts>>

\* line 217 (add), line 315 (edit_post), line 325 (delete_post)
SavePosts(p) ==
    /\ pc[p] = "save"
    /\ posts_blob' = save_posts(posts[p])
    /\ IF req[p].handler = "add"
       THEN /\ pc' = [pc EXCEPT ![p] = "notify"]
            /\ posts' = [posts EXCEPT ![p] = <<>>]
            /\ UNCHANGED <<req, new_post, subscribers, idx, outcome>>
       ELSE Respond(p, "redirect:edit_list")
    /\ UNCHANGED <<subs_blob, objects, uuid_next, mail_env, received, body, attempts>>

(* ----------------------------- edit_post ------------------------------- *)

\* description_map = dict(zip(urls, descs)): a later pair replaces an
\* earlier one with the same url
ZipLen(urls, descs) == IF Len(urls) <= Len(descs) THEN Len(urls) ELSE Len(descs)

InDescriptionMap(urls, descs, url) == \E i \in 1..ZipLen(urls, descs) : urls[i] = url

DescriptionMap(urls, descs, url) ==
    LET last == CHOOSE i \in 1..ZipLen(urls, descs) :
                    /\ urls[i] = url
                    /\ \A j \in (i + 1)..ZipLen(urls, descs) : urls[j] # url
    IN  descs[last]

\* a patch that keeps only the items whose url was submitted
PatchSubmitted(media, urls, descs) ==
    LET Submitted(item) == InDescriptionMap(urls, descs, item.url)
        kept == SelectSeq(media, Submitted)
    IN  [i \in 1..Len(kept) |->
            [kept[i] EXCEPT !.description = DescriptionMap(urls, descs, kept[i].url)]]

\* lines 257-259
PatchDescriptions(media, urls, descs) ==
    [i \in 1..Len(media) |->
        IF InDescriptionMap(urls, descs, media[i].url)
        THEN [media[i] EXCEPT !.description = DescriptionMap(urls, descs, media[i].url)]
        ELSE media[i]]

\* lines 302-313
EditGeo(post, lat_str, lng_str) ==
    IF lat_str # "" /\ lng_str # ""
    THEN IF ~FloatParses(lat_str) THEN post
         ELSE IF ~FloatParses(lng_str) THEN Put(post, "latitude", FloatTable[lat_str])
         ELSE Put(Put(post, "latitude", FloatTable[lat_str]), "longitude", FloatTable[lng_str])
    ELSE Pop(Pop(post, "latitude"), "longitude")

\* lines 251-313 when nothing raises: post.get("media", []) is patched in
\* place, the new items are appended to post["media"]
EditedPost(post, form, u) ==
    LET p1 == IF Has(post, "media")
              THEN Put(post, "media",
                       PatchDescriptions(post.media, form.existing_media_url,
                                         form.existing_media_description)
                       \o FormItems(form, u))
              ELSE post
        p2 == Put(p1, "city", form.city)
        p3 == Put(p2, "datetime", IsoFormat(Strptime(form.date, form.time)))
        p4 == Put(p3, "text", form.text)
    IN  EditGeo(p4, StripText(OrEmpty(form.latitude)), StripText(OrEmpty(form.longitude)))

\* a lookup that falls back to the first post
FindPostOrFirst(ps, post_id) ==
    IF \E i \in 1..Len(ps) : ps[i].id = post_id
    THEN CHOOSE i \in 1..Len(ps) : ps[i].id = post_id /\ \A j \in 1..(i - 1) : ps[j].id # post_id
    ELSE IF Len(ps) > 0 THEN 1 ELSE 0

\* next((p for p in posts if p["id"] == post_id), None): 0 for None
FindPost(ps, post_id) ==
    IF \E i \in 1..Len(ps) : ps[i].id = post_id
    THEN CHOOSE i \in 1..Len(ps) : ps[i].id = post_id /\ \A j \in 1..(i - 1) : ps[j].id # post_id
    ELSE 0

\* post["media"].append(...) on a post without the key raises KeyError at
\* the first new item, after the upload of that item
AppendRaises(post, form) == ~Has(post, "media") /\ FormItems(form, 1) # <<>>

\* the uuids an edit draws and the objects it writes
EditUuids(post, form) ==
    IF AppendRaises(post, form) THEN (IF FormUuids(form) > 0 THEN 1 ELSE 0)
    ELSE FormUuids(form)

EditObjects(post, form, u) ==
    IF AppendRaises(post, form)
    THEN (IF FormUuids(form) > 0 THEN {FormItems(form, u)[1].url.key} ELSE {})
    ELSE FormObjects(form, u)

\* /edit-post/<post_id>, lines 245-313
EditStart(p, form) ==
    /\ pc[p] = "start" /\ req[p].handler = "edit_post"
    /\ LET ps == get_posts(posts_blob)
           i  == FindPost(ps, req[p].post_id)
       IN  IF i = 0
           THEN /\ Respond(p, "redirect:index")
                /\ UNCHANGED <<objects, uuid_next>>
           ELSE IF req[p].method = "GET"
           THEN /\ Respond(p, "render:edit_post.html")
                /\ UNCHANGED <<objects, uuid_next>>
           ELSE /\ uuid_next' = uuid_next + EditUuids(ps[i], form)
                /\ objects' = objects \cup EditObjects(ps[i], form, uuid_next)
                /\ IF \/ AppendRaises(ps[i], form)
                      \/ Strptime(form.date, form.time) = ParseError
                   THEN Respond(p, "error:500")
                   ELSE /\ posts' = [posts EXCEPT ![p] =
                               [ps EXCEPT ![i] = EditedPost(ps[i], form, uuid_next)]]
                        /\ pc' = [pc EXCEPT ![p] = "save"]
                        /\ UNCHANGED <<req, new_post, subscribers, idx, outcome>>
    /\ UNCHANGED <<posts_blob, subs_blob, mail_env, received, body, attempts>>

(* ---------------------------- delete_post ------------------------------ *)

\* a filter that looks at the first post only
WithoutHead(ps, post_id) ==
    IF ps # <<>> /\ Head(ps).id = post_id THEN Tail(ps) ELSE ps

\* [p for p in posts if p["id"] != post_id]
RECURSIVE WithoutId(_, _)
WithoutId(ps, post_id) ==
    IF ps = <<>> THEN <<>>
    ELSE (IF Head(ps).id # post_id THEN <<Head(ps)>> ELSE <<>>) \o WithoutId(Tail(ps), post_id)

\* POST /delete-post/<post_id>, lines 323-324
DeleteStart(p) ==
    /\ pc[p] = "start" /\ req[p].handler = "delete_post"
    /\ posts' = [posts EXCEPT ![p] = WithoutId(get_posts(posts_blob), req[p].post_id)]
    /\ pc' = [pc EXCEPT ![p] = "save"]
    /\ UNCHANGED <<posts_blob, subs_blob, objects, uuid_next, mail_env, received, body, req,
                   new_post,
                   subscribers, idx, attempts, outcome>>

(* ------------------------- the subscribers ----------------------------- *)

\* An address is a sequence of one-letter strings.
LowerChar(c) ==
    CASE c = "A" -> "a"
      [] c = "B" -> "b"
      [] c = "C" -> "c"
      [] OTHER   -> c

\* an address that is not lower-cased
NotLowered(s) == s

\* str.lower()
Lower(s) == [i \in 1..Len(s) |-> LowerChar(s[i])]

IsSpace(c) == c = " "

\* str.strip()
RECURSIVE LStrip(_)
LStrip(s) == IF s # <<>> /\ IsSpace(Head(s)) THEN LStrip(Tail(s)) ELSE s

RECURSIVE RStrip(_)
RStrip(s) ==
    IF s # <<>> /\ IsSpace(s[Len(s)]) THEN RStrip(SubSeq(s, 1, Len(s) - 1)) ELSE s

Strip(s) == RStrip(LStrip(s))

\* c in s
Contains(s, c) == \E i \in 1..Len(s) : s[i] = c

\* s.split("@")[1] for an s that contains "@": the text between the first
\* "@" and the next one (or the end)
SecondPart(s) ==
    LET first == CHOOSE i \in 1..Len(s) : s[i] = "@" /\ \A j \in 1..(i - 1) : s[j] # "@"
        rest  == SubSeq(s, first + 1, Len(s))
    IN  IF Contains(rest, "@")
        THEN SubSeq(rest, 1, (CHOOSE i \in 1..Len(rest) :
                                 rest[i] = "@" /\ \A j \in 1..(i - 1) : rest[j] # "@") - 1)
        ELSE rest

\* line 337
EmailInvalid(email) == ~Contains(email, "@") \/ ~Contains(SecondPart(email), ".")

\* get_subscribers()
get_subscribers(blob) == IF ~blob.exists THEN <<>> ELSE blob.data

\* save_subscribers(subscribers): the new content of subscribers.json
save_subscribers(subs) == Blob(subs)

\* a removal of the first element, whatever it is
RemoveHead(s, x) == Tail(s)

\* list.remove(x), line 361: removes the first occurrence
RemoveFirst(s, x) ==
    LET i == CHOOSE k \in 1..Len(s) : s[k] = x /\ \A j \in 1..(k - 1) : s[j] # x
    IN  SubSeq(s, 1, i - 1) \o SubSeq(s, i + 1, Len(s))

\* a subscribe without the membership test
NeverSubscribed(subs, email) == FALSE

\* line 342: email in subscribers
AlreadySubscribed(subs, email) == Contains(subs, email)

\* POST /subscribe, lines 331-345
SubscribeStart(p) ==
    /\ pc[p] = "start" /\ req[p].handler = "subscribe"
    /\ LET email == Lower(Strip(req[p].email))
           subs  == get_subscribers(subs_blob)
       IN  IF email = <<>>
           THEN Respond(p, "400:Email requis")
           ELSE IF EmailInvalid(email)
           THEN Respond(p, "400:Email invalide")
           ELSE IF AlreadySubscribed(subs, email)
           THEN Respond(p, "400:Vous etes deja abonne")
           ELSE /\ subscribers' = [subscribers EXCEPT ![p] = Append(subs, email)]
                /\ pc' = [pc EXCEPT ![p] = "save_subscribers"]
                /\ UNCHANGED <<req, posts, new_post, idx, outcome>>
    /\ UNCHANGED <<posts_blob, subs_blob, objects, uuid_next, mail_env, received, body, attempts>>

\* GET /unsubscribe, lines 353-361
UnsubscribeStart(p) ==
    /\ pc[p] = "start" /\ req[p].handler = "unsubscribe"
    /\ LET email == Lower(Strip(req[p].email))
           subs  == get_subscribers(subs_blob)
       IN  IF email = <<>>
           THEN Respond(p, "redirect:index")
           ELSE IF Contains(subs, email)
           THEN /\ subscribers' = [subscribers EXCEPT ![p] = RemoveFirst(subs, email)]
                /\ pc' = [pc EXCEPT ![p] = "save_subscribers"]
                /\ UNCHANGED <<req, posts, new_post, idx, outcome>>
           ELSE Respond(p, "redirect:index")
    /\ UNCHANGED <<posts_blob, subs_blob, objects, uuid_next, mail_env, received, body, attempts>>

\* line 346 (subscribe), line 362 (unsubscribe)
SaveSubscribers(p) ==
    /\ pc[p] = "save_subscribers"
    /\ subs_blob' = save_subscribers(subscribers[p])
    /\ Respond(p, IF req[p].handler = "subscribe"
                  THEN "200:Inscription reussie"
                  ELSE "redirect:index?unsubscribe_success")
    /\ UNCHANGED <<posts_blob, objects, uuid_next, mail_env, received, body, attempts>>

(* ----------------------- notification fan-out -------------------------- *)

\* add, lines 220-223
AddNotify(p) ==
    /\ pc[p] = "notify"
    /\ LET subs == get_subscribers(subs_blob)
       IN  IF subs = <<>>
           THEN Respond(p, "redirect:index")
           ELSE /\ subscribers' = [subscribers EXCEPT ![p] = subs]
                /\ new_post' = [new_post EXCEPT ![p] =
                       Put(new_post[p], "display_datetime",
                           format_datetime_fr(new_post[p].datetime.v))]
                /\ idx' = [idx EXCEPT ![p] = 1]
                /\ pc' = [pc EXCEPT ![p] = "send"]
                /\ UNCHANGED <<req, posts, outcome>>
    /\ UNCHANGED <<posts_blob, subs_blob, objects, uuid_next, mail_env, received, body, attempts>>

\* what one pass of the loop body (lines 226-230, send_email) does:
\* create_post_email may raise, send_email returns early without
\* credentials and swallows what smtplib raises
Delivery(render_ok, smtp_ok) ==
    IF ~render_ok THEN "failed:render"
    ELSE IF ~mail_env THEN "skipped:no credentials"
    ELSE IF ~smtp_ok THEN "failed:smtp"
    ELSE "sent"

\* a loop without the try / except of lines 226-230: the exception of a
\* failed rendering ends the request
AddSendUnguarded(p, render_ok, smtp_ok) ==
    /\ pc[p] = "send"
    /\ attempts' = [attempts EXCEPT ![p] =
           Append(@, [to |-> subscribers[p][idx[p]], subject |-> new_post[p].city,
                      result |-> Delivery(render_ok, smtp_ok)])]
    /\ IF ~render_ok
       THEN Respond(p, "error:500")
       ELSE IF idx[p] < Len(subscribers[p])
       THEN /\ idx' = [idx EXCEPT ![p] = @ + 1]
            /\ UNCHANGED <<pc, req, posts, new_post, subscribers, outcome>>
       ELSE Respond(p, "redirect:index")
    /\ UNCHANGED <<posts_blob, subs_blob, objects, uuid_next, mail_env, received, body>>

\* add, lines 225-232: one pass of the loop; the return after the last one
AddSend(p, render_ok, smtp_ok) ==
    /\ pc[p] = "send"
    /\ attempts' = [attempts EXCEPT ![p] =
           Append(@, [to |-> subscribers[p][idx[p]], subject |-> new_post[p].city,
                      result |-> Delivery(render_ok, smtp_ok)])]
    /\ IF idx[p] < Len(subscribers[p])
       THEN /\ idx' = [idx EXCEPT ![p] = @ + 1]
            /\ UNCHANGED <<pc, req, posts, new_post, subscribers, outcome>>
       ELSE Respond(p, "redirect:index")
    /\ UNCHANGED <<posts_blob, subs_blob, objects, uuid_next, mail_env, received, body>>

(* ------------------------------ readers -------------------------------- *)

\* a loop over posts instead of reversed(posts)
NotReversed(s) == s

\* reversed(posts)
Reversed(s) == [i \in 1..Len(s) |-> s[Len(s) + 1 - i]]

\* locations, lines 374-387: the entries of the posts of ps, in the order of ps
RECURSIVE LocationEntries(_)
LocationEntries(ps) ==
    IF Len(ps) = 0 THEN <<>>
    ELSE (IF Has(ps[1], "latitude") /\ Has(ps[1], "longitude")
          THEN <<[lat |-> ps[1].latitude, lng |-> ps[1].longitude,
                  city |-> ps[1].city, datetime |-> IsoFormat(ps[1].datetime.v)]>>
          ELSE <<>>) \o LocationEntries(SubSeq(ps, 2, Len(ps)))

\* GET /locations: the JSON array of the response
locations(blob) == LocationEntries(Reversed(get_posts(blob)))

\* GET /: the posts handed to index.html
index(blob) == get_posts(blob)

(* ------------------------ requests and forms --------------------------- *)

Request(handler, method, post_id, email) ==
    [handler |-> handler, method |-> method, post_id |-> post_id, email |-> email]

\* the post ids of the requests: the ids of the posts that a behaviour can
\* create and still address afterwards
PostIds == 1..(MaxRequests - 1)

\* the requests on the posts: /add, /edit-post/<post_id>, /delete-post/<post_id>
PostRequests ==
    {Request("add", m, 0, <<>>) : m \in {"GET", "POST"}}
    \cup {Request("edit_post", m, id, <<>>) : m \in {"GET", "POST"}, id \in PostIds}
    \cup {Request("delete_post", "POST", id, <<>>) : id \in PostIds}

\* the fields of a form that carries no media
PlainForm(city, date, lat, lng) ==
    [city |-> city, date |-> date, time |-> "10:00", text |-> "Arrived",
     latitude |-> lat, longitude |-> lng,
     uploaded_media_url |-> <<>>, uploaded_media_description |-> <<>>,
     media |-> <<>>, media_description |-> <<>>,
     existing_media_url |-> <<>>, existing_media_description |-> <<>>]

\* the date fields of the forms: two days and a missing date
DateTexts == {"2024-05-01", "2024-05-02", None}

\* the latitude and longitude fields of the forms: empty, missing, numbers
\* (with blanks around them), and a text that float() rejects
GeoTexts ==
    {<<"", "">>, <<None, "2.35">>, <<" 48.85 ", "2.35">>, <<"48.85", "abc">>,
     <<"abc", "2.35">>}

\* the forms of the specification Spec: no coordinates
Forms == {PlainForm("Paris", d, "", "") : d \in DateTexts}

\* the forms of the specification SpecGeo
GeoForms == {PlainForm(c, d, g[1], g[2]) : c \in {"Paris", "Lyon"}, d \in DateTexts, g \in GeoTexts}

(* -------------------------- specifications ----------------------------- *)

InitWorkers ==
    /\ pc = [p \in Procs |-> "idle"]
    /\ req = [p \in Procs |-> NoReq]
    /\ posts = [p \in Procs |-> <<>>]
    /\ new_post = [p \in Procs |-> Unbound]
    /\ subscribers = [p \in Procs |-> <<>>]
    /\ idx = [p \in Procs |-> 0]
    /\ attempts = [p \in Procs |-> <<>>]
    /\ outcome = [p \in Procs |-> "none"]
    /\ body = [p \in Procs |-> Unbound]

\* an empty bucket: neither document exists yet
Init ==
    /\ posts_blob = NoBlob
    /\ subs_blob = NoBlob
    /\ objects = {}
    /\ uuid_next = 1
    /\ received = 0
    /\ mail_env = TRUE
    /\ InitWorkers

ReceivePost == \E p \in Procs : \E r \in PostRequests : Receive(p, r)

DoAddGet == \E p \in Procs : AddGet(p)

DoAddStart == \E p \in Procs : \E form \in Forms : AddStart(p, form)

DoEditStart == \E p \in Procs : \E form \in Forms : EditStart(p, form)

DoDeleteStart == \E p \in Procs : DeleteStart(p)

DoSavePosts == \E p \in Procs : SavePosts(p)

DoAddNotify == \E p \in Procs : AddNotify(p)

\* The posts of the journal under concurrent requests.  subscribers.json
\* does not exist, so that add returns at line 221 without entering its loop.
Next ==
    \/ ReceivePost
    \/ DoAddGet
    \/ DoAddStart
    \/ DoEditStart
    \/ DoDeleteStart
    \/ DoSavePosts
    \/ DoAddNotify

Spec == Init /\ [][Next]_vars

(* ------------------------ posts with coordinates ----------------------- *)

\* the worker of the sequential specifications
Solo == "r1"

GeoReceive == \E r \in PostRequests : Receive(Solo, r)

GeoAddGet == AddGet(Solo)

GeoAddStart == \E form \in GeoForms : AddStart(Solo, form)

GeoEditStart == \E form \in GeoForms : EditStart(Solo, form)

GeoDeleteStart == DeleteStart(Solo)

GeoSavePosts == SavePosts(Solo)

GeoAddNotify == AddNotify(Solo)

\* The posts of the journal, with and without coordinates, under requests
\* that are handled one after the other.
NextGeo ==
    \/ GeoReceive
    \/ GeoAddGet
    \/ GeoAddStart
    \/ GeoEditStart
    \/ GeoDeleteStart
    \/ GeoSavePosts
    \/ GeoAddNotify

SpecGeo == Init /\ [][NextGeo]_vars

(* ----------------- subscribers and notifications ----------------------- *)

\* the email fields of the requests: "A@b.c", " a@b.c ", "c@b.a", the empty
\* and the blank text, "ab.c" (no "@"), "a.b@c" (no "." behind the "@"),
\* "a@b@.c" (no "." between the two "@")
EmailTexts ==
    {<<"A", "@", "b", ".", "c">>, <<" ", "a", "@", "b", ".", "c", " ">>,
     <<"c", "@", "b", ".", "a">>, <<>>, <<" ">>, <<"a", "b", ".", "c">>,
     <<"a", ".", "b", "@", "c">>, <<"a", "@", "b", "@", ".", "c">>}

\* POST /subscribe and GET /unsubscribe
SubscriberRequests ==
    {Request("subscribe", "POST", 0, e) : e \in EmailTexts}
    \cup {Request("unsubscribe", "GET", 0, e) : e \in EmailTexts}

\* the form of the posts created in SpecSubs
MailForms == {PlainForm("Paris", "2024-05-01", "", "")}

InitSubs ==
    /\ posts_blob = NoBlob
    /\ subs_blob = NoBlob
    /\ objects = {}
    /\ uuid_next = 1
    /\ received = 0
    /\ mail_env \in BOOLEAN
    /\ InitWorkers

ReceiveSubscriber == \E p \in Procs : \E r \in SubscriberRequests : Receive(p, r)

ReceiveAdd == \E p \in Procs : Receive(p, Request("add", "POST", 0, <<>>))

DoAddMail == \E p \in Procs : \E form \in MailForms : AddStart(p, form)

DoSubscribeStart == \E p \in Procs : SubscribeStart(p)

DoUnsubscribeStart == \E p \in Procs : UnsubscribeStart(p)

DoSaveSubscribers == \E p \in Procs : SaveSubscribers(p)

DoAddSend == \E p \in Procs : \E render_ok, smtp_ok \in BOOLEAN : AddSend(p, render_ok, smtp_ok)

\* The subscribers under concurrent requests, and the posts created while
\* there are subscribers.
NextSubs ==
    \/ ReceiveSubscriber
    \/ ReceiveAdd
    \/ DoSubscribeStart
    \/ DoUnsubscribeStart
    \/ DoSaveSubscribers
    \/ DoAddMail
    \/ DoSavePosts
    \/ DoAddNotify
    \/ DoAddSend

SpecSubs == InitSubs /\ [][NextSubs]_vars

(* ------------------------------ uploads -------------------------------- *)

\* the lifetime of a signed URL, line 414
SignedUrlMinutes == 15

\* str.strip() on the filename of /signed-url
BlankFileName == [base |-> " ", ext |-> ""]

StripName(f) == IF f = BlankFileName THEN NoFileName ELSE f

\* bucket.blob(filename): the key is the text the client sent
ClientKey(f) == [uid |-> 0, base |-> f.base, ext |-> f.ext]

\* POST /signed-url, lines 394-422; identity_ok: google.auth.default(),
\* the refresh and the signing succeed
SignedUrl(p, identity_ok) ==
    /\ pc[p] = "start" /\ req[p].handler = "signed_url"
    /\ LET filename == StripName(req[p].data.filename)
           key == ClientKey(filename)
       IN  IF filename = NoFileName
           THEN /\ Respond(p, "400:filename is required")
                /\ UNCHANGED body
           ELSE IF ~identity_ok
           THEN /\ Respond(p, "500:error")
                /\ UNCHANGED body
           ELSE /\ Respond(p, "200:signed url")
                /\ body' = [body EXCEPT ![p] =
                       [url |-> [key |-> key, method |-> req[p].data.method,
                                 content_type |-> req[p].data.content_type,
                                 minutes |-> SignedUrlMinutes],
                        public_url |-> PublicUrl(key)]]
    /\ UNCHANGED <<posts_blob, subs_blob, objects, uuid_next, mail_env, received, attempts>>

FileNames == {[base |-> "photo", ext |-> ".jpg"], [base |-> "db", ext |-> ".json"]}

\* the JSON bodies sent to /signed-url
SignedUrlRequests ==
    {Request("signed_url", "POST", 0, <<>>)
        @@ [data |-> [filename |-> f, content_type |-> "image/jpeg", method |-> "PUT"]] :
        f \in FileNames \cup {NoFileName, BlankFileName}}

\* a form with media: uploaded urls (direct path) or files (traditional path)
MediaForm(urls, udescs, files, fdescs, eurls, edescs, date) ==
    [city |-> "Paris", date |-> date, time |-> "10:00", text |-> "Arrived",
     latitude |-> "", longitude |-> "",
     uploaded_media_url |-> urls, uploaded_media_description |-> udescs,
     media |-> files, media_description |-> fdescs,
     existing_media_url |-> eurls, existing_media_description |-> edescs]

PhotoUrl == PublicUrl(ClientKey([base |-> "photo", ext |-> ".jpg"]))

\* the forms of the specification SpecUpload
UploadForms ==
    {MediaForm(<<>>, <<>>, <<[base |-> "photo", ext |-> ".jpg"]>>, <<"sea">>, <<>>, <<>>, "2024-05-01"),
     MediaForm(<<>>, <<>>, <<NoFileName, [base |-> "photo", ext |-> ".jpg"]>>, <<"sea">>, <<>>, <<>>, "2024-05-01"),
     MediaForm(<<PhotoUrl>>, <<"sea">>, <<>>, <<>>, <<>>, <<>>, "2024-05-01"),
     MediaForm(<<>>, <<>>, <<[base |-> "photo", ext |-> ".jpg"]>>, <<>>, <<>>, <<>>, None)}

UploadRequests ==
    SignedUrlRequests
    \cup {Request("add", "POST", 0, <<>>)}
    \cup {Request("edit_post", "POST", id, <<>>) : id \in PostIds}

ReceiveUpload == \E p \in Procs : \E r \in UploadRequests : Receive(p, r)

DoSignedUrl == \E p \in Procs : \E identity_ok \in BOOLEAN : SignedUrl(p, identity_ok)

UploadAddStart == \E p \in Procs : \E form \in UploadForms : AddStart(p, form)

UploadEditStart == \E p \in Procs : \E form \in UploadForms : EditStart(p, form)

\* The two upload paths: signed URLs for direct uploads, and files sent
\* with the forms of add and edit_post.
NextUpload ==
    \/ ReceiveUpload
    \/ DoSignedUrl
    \/ UploadAddStart
    \/ UploadEditStart
    \/ DoSavePosts
    \/ DoAddNotify

SpecUpload == Init /\ [][NextUpload]_vars

(* --------------------- posts with media, one worker -------------------- *)

LegacyUrl == PublicUrl(ClientKey([base |-> "old", ext |-> ".jpg"]))

OtherUrl == PublicUrl(ClientKey([base |-> "other", ext |-> ".jpg"]))

\* a db.json written by the versions that stored media as bare strings
\* (lines 62-70): one post with such an entry, one post without media
LegacyBlob ==
    Blob(<<[id |-> 1, city |-> "Paris", datetime |-> IsoFormat(Strptime("2024-05-01", "10:00")),
            text |-> "Arrived", media |-> <<[str |-> LegacyUrl]>>],
           [id |-> 2, city |-> "Lyon", datetime |-> IsoFormat(Strptime("2024-05-02", "10:00")),
            text |-> "Arrived"]>>)

\* the forms of the specification SpecMedia: no media; a direct upload; a
\* file; new descriptions for a stored and for an unknown url; a new
\* description together with a direct upload; a file with a missing date
MediaForms ==
    {MediaForm(<<>>, <<>>, <<>>, <<>>, <<>>, <<>>, "2024-05-01"),
     MediaForm(<<PhotoUrl>>, <<"sea">>, <<>>, <<>>, <<>>, <<>>, "2024-05-02"),
     MediaForm(<<>>, <<>>, <<[base |-> "photo", ext |-> ".jpg"]>>, <<>>, <<>>, <<>>, "2024-05-01"),
     MediaForm(<<>>, <<>>, <<>>, <<>>, <<LegacyUrl, OtherUrl>>, <<"harbour", "lost">>, "2024-05-01"),
     MediaForm(<<PhotoUrl>>, <<"sea">>, <<>>, <<>>, <<PhotoUrl, LegacyUrl, PhotoUrl>>,
               <<"first", "harbour", "last">>, "2024-05-02"),
     MediaForm(<<>>, <<>>, <<[base |-> "photo", ext |-> ".jpg"]>>, <<"sea">>, <<>>, <<>>, None)}

\* a request together with its form (request.form, request.files)
WithForm(r, form) == r @@ [form |-> form]

MediaRequests ==
    {WithForm(Request("add", "POST", 0, <<>>), f) : f \in MediaForms}
    \cup {WithForm(Request("edit_post", "POST", id, <<>>), f) : id \in PostIds, f \in MediaForms}
    \cup {Request("delete_post", "POST", id, <<>>) : id \in PostIds}

\* an empty bucket, or a bucket that holds the db.json of an old version
InitMedia ==
    /\ \/ posts_blob = NoBlob /\ uuid_next = 1
       \/ posts_blob = LegacyBlob /\ uuid_next = 3
    /\ subs_blob = NoBlob
    /\ objects = {}
    /\ received = 0
    /\ mail_env = TRUE
    /\ InitWorkers

MediaReceive == \E r \in MediaRequests : Receive(Solo, r)

MediaAddStart == Has(req[Solo], "form") /\ AddStart(Solo, req[Solo].form)

MediaEditStart == Has(req[Solo], "form") /\ EditStart(Solo, req[Solo].form)

MediaDeleteStart == DeleteStart(Solo)

MediaSavePosts == SavePosts(Solo)

MediaAddNotify == AddNotify(Solo)

\* The posts and their media under requests that are handled one after
\* the other; the form of a request is kept in req.
NextMedia ==
    \/ MediaReceive
    \/ MediaAddStart
    \/ MediaEditStart
    \/ MediaDeleteStart
    \/ MediaSavePosts
    \/ MediaAddNotify

SpecMedia == InitMedia /\ [][NextMedia]_vars

(* ------------------ posts created while there are subscribers --------- *)

\* the forms of the specification SpecFan: a complete one, one without a
\* date, one with a time that strptime refuses
FanForms ==
    {PlainForm("Paris", "2024-05-01", "", ""),
     PlainForm("Paris", None, "", ""),
     [PlainForm("Paris", "2024-05-01", "", "") EXCEPT !.time = "25:61"]}

FanEditForm == PlainForm("Lyon", "2024-05-02", "", "")

FanUnsubscribed == <<"A", "@", "b", ".", "c">>

FanRequests ==
    {WithForm(Request("add", "POST", 0, <<>>), f) : f \in FanForms}
    \cup {WithForm(Request("edit_post", "POST", 1, <<>>), FanEditForm),
          Request("delete_post", "POST", 1, <<>>),
          Request("unsubscribe", "GET", 0, FanUnsubscribed)}

\* two addresses are subscribed, no post is stored
InitFan ==
    /\ posts_blob = NoBlob
    /\ subs_blob = Blob(<<<<"a", "@", "b", ".", "c">>, <<"c", "@", "b", ".", "a">>>>)
    /\ objects = {}
    /\ uuid_next = 1
    /\ received = 0
    /\ mail_env = TRUE
    /\ InitWorkers

FanReceive == \E p \in Procs : \E r \in FanRequests : Receive(p, r)

FanAddStart == \E p \in Procs : Has(req[p], "form") /\ AddStart(p, req[p].form)

FanEditStart == \E p \in Procs : Has(req[p], "form") /\ EditStart(p, req[p].form)

FanSend == \E p \in Procs : \E smtp_ok \in BOOLEAN : AddSend(p, TRUE, smtp_ok)

\* Creates, updates and deletes under concurrent requests while
\* subscribers.json holds addresses, one of which is unsubscribed.
NextFan ==
    \/ FanReceive
    \/ FanAddStart
    \/ FanEditStart
    \/ DoDeleteStart
    \/ DoSavePosts
    \/ DoUnsubscribeStart
    \/ DoSaveSubscribers
    \/ DoAddNotify
    \/ FanSend

SpecFan == InitFan /\ [][NextFan]_vars

(* ------------- requests for the posts that the pages show -------------- *)

\* the update and the delete of a post are requested from the pages that
\* list the stored posts (edit_list.html): the id of such a request is
\* the id of a post that is stored when the request is sent
ListedRequests ==
    {Request("add", "POST", 0, <<>>)}
    \cup {Request("edit_post", "POST", id, <<>>) : id \in {posts_blob.data[i].id : i \in 1..Len(posts_blob.data)}}
    \cup {Request("delete_post", "POST", id, <<>>) : id \in {posts_blob.data[i].id : i \in 1..Len(posts_blob.data)}}

ReceiveListed == \E p \in Procs : \E r \in ListedRequests : Receive(p, r)

\* The posts under concurrent requests for posts that exist.
NextListed ==
    \/ ReceiveListed
    \/ DoAddStart
    \/ DoEditStart
    \/ DoDeleteStart
    \/ DoSavePosts
    \/ DoAddNotify

SpecListed == Init /\ [][NextListed]_vars

(* ============================ properties =============================== *)

\* the ids of the records of a document or of a list of posts
Ids(ps) == {ps[i].id : i \in 1..Len(ps)}

\* worker p takes the step that leaves position at
Leaves(p, at) == pc[p] = at /\ pc'[p] # at

(* ---- C1 ---- *)

\* C1: a save replaces db.json in full by the list of the saving request:
\* after it the document holds the posts of that list and no other, so that
\* a post which another request stored after the saver's load is gone (no
\* merge), the post of a saving add is there, and the saver gets no error.
LastSaveWins ==
    [][\A q \in Procs : Leaves(q, "save") =>
          /\ posts_blob'.exists
          /\ Len(posts_blob'.data) = Len(posts[q])
          /\ \A i \in 1..Len(posts[q]) : posts_blob'.data[i].id = posts[q][i].id
          /\ \A id \in Ids(posts_blob.data) \ Ids(posts[q]) : id \notin Ids(posts_blob'.data)
          /\ req[q].handler = "add" => new_post[q].id \in Ids(posts_blob'.data)
          /\ outcome'[q] \in {"pending", "redirect:edit_list"}]_vars

\* two adds loaded before either saved, both have saved, and only the post
\* of the last saver is stored
LostUpdateSeen ==
    \E p, q \in Procs :
        /\ p # q
        /\ pc[p] = "notify" /\ pc[q] = "notify"
        /\ new_post[p].id \notin Ids(posts_blob.data)
        /\ Ids(posts_blob.data) = {new_post[q].id}

(* ---- C2 ---- *)

\* C2: in the list of the index page, of two posts with distinct datetimes
\* the one with the greater datetime comes first, and only then.
ListDescending ==
    LET l == index(posts_blob)
    IN  \A i, j \in 1..Len(l) :
            l[i].datetime.v # l[j].datetime.v =>
                (i < j <=> l[i].datetime.v > l[j].datetime.v)

\* the stored order is not the listed order: an older post is stored before
\* a newer one
StoredOutOfOrder ==
    \E i, j \in 1..Len(posts_blob.data) :
        i < j /\ posts_blob.data[i].datetime.v < posts_blob.data[j].datetime.v

(* ---- C3 ---- *)

\* C3: in the list of the index page, of two posts with the same datetime
\* the one created first (the smaller uuid draw) comes first.
TiesInInsertionOrder ==
    LET l == index(posts_blob)
    IN  \A i, j \in 1..Len(l) :
            (i < j /\ l[i].datetime.v = l[j].datetime.v) => l[i].id < l[j].id

(* ---- C4 ---- *)

\* C4: edit_post with an id that no stored post has returns the redirect to
\* the index without reaching save_posts and leaves db.json as it is, for
\* GET and POST and every form.
EditUnknownIdNoSave ==
    [][\A p \in Procs :
          (/\ Leaves(p, "start")
           /\ req[p].handler = "edit_post"
           /\ req[p].post_id \notin Ids(posts_blob.data))
          => /\ pc'[p] = "idle"
             /\ outcome'[p] = "redirect:index"
             /\ posts_blob' = posts_blob]_vars

\* a POST to edit_post with an unknown id was answered while posts are stored
EditUnknownIdSeen ==
    \E p \in Procs :
        /\ pc[p] = "idle" /\ req[p].handler = "edit_post" /\ req[p].method = "POST"
        /\ outcome[p] = "redirect:index"
        /\ posts_blob.data # <<>>
        /\ req[p].post_id \notin Ids(posts_blob.data)

(* ---- C5 ---- *)

\* the stored posts have pairwise distinct ids, all of them drawn already
StoredIdsDistinct ==
    /\ \A i, j \in 1..Len(posts_blob.data) :
          i # j => posts_blob.data[i].id # posts_blob.data[j].id
    /\ \A id \in Ids(posts_blob.data) : id < uuid_next

\* an add gives its post an id that was never drawn before, an edit keeps
\* the ids of the list it loaded
IdSteps ==
    \A p \in Procs :
        /\ (Leaves(p, "start") /\ req[p].handler = "add" /\ pc'[p] = "save")
              => /\ new_post'[p].id >= uuid_next
                 /\ new_post'[p].id < uuid_next'
                 /\ new_post'[p].id \notin Ids(posts_blob.data)
        /\ (Leaves(p, "start") /\ req[p].handler = "edit_post" /\ pc'[p] = "save")
              => /\ Len(posts'[p]) = Len(posts_blob.data)
                 /\ Ids(posts'[p]) = Ids(posts_blob.data)

\* C5: the ids of the stored posts are pairwise distinct in every state;
\* every add assigns a fresh id, and edit_post never changes an id.
IdsUnique == []StoredIdsDistinct /\ [][IdSteps]_vars

\* two adds with the same field values are stored, and a post was edited
SameFieldsTwice ==
    /\ \E i, j \in 1..Len(posts_blob.data) :
          /\ i # j
          /\ posts_blob.data[i].datetime.v = posts_blob.data[j].datetime.v
          /\ posts_blob.data[i].city = posts_blob.data[j].city
    /\ \E p \in Procs : req[p].handler = "edit_post" /\ outcome[p] = "redirect:edit_list"

(* ---- C6 ---- *)

\* C6: every stored post has both latitude and longitude or neither.
GeoPaired ==
    \A i \in 1..Len(posts_blob.data) :
        Has(posts_blob.data[i], "latitude") <=> Has(posts_blob.data[i], "longitude")

(* ---- C7 ---- *)

\* C7: subscribers.json holds no address twice, and no address with a
\* capital letter or a blank, so that no two entries are equal in any
\* letter case.
NoDuplicateSubscribers ==
    /\ \A i, j \in 1..Len(subs_blob.data) :
          i # j => subs_blob.data[i] # subs_blob.data[j]
    /\ \A i \in 1..Len(subs_blob.data) :
          \A k \in 1..Len(subs_blob.data[i]) :
              subs_blob.data[i][k] \notin {"A", "B", "C", " "}

\* two subscribes of one address loaded before either saved: one has saved
\* the address, the other is about to save a list that holds it too
SubscribeRaceSeen ==
    \E p, q \in Procs :
        /\ p # q
        /\ req[p].handler = "subscribe" /\ outcome[p] = "200:Inscription reussie"
        /\ req[q].handler = "subscribe" /\ pc[q] = "save_subscribers"
        /\ \E i \in 1..Len(subs_blob.data) :
              subs_blob.data[i] = subscribers[q][Len(subscribers[q])]

(* ---- C8 ---- *)

\* the address of an email field after trimming and lower-casing, written
\* out for the texts of EmailTexts
ExpectedAddress(raw) ==
    CASE raw = <<"A", "@", "b", ".", "c">>           -> <<"a", "@", "b", ".", "c">>
      [] raw = <<" ", "a", "@", "b", ".", "c", " ">> -> <<"a", "@", "b", ".", "c">>
      [] raw = <<" ">>                               -> <<>>
      [] OTHER                                       -> raw

NoAtSign(e) == \A i \in 1..Len(e) : e[i] # "@"

NoDotAfterAt(e) == ~\E i, j \in 1..Len(e) : i < j /\ e[i] = "@" /\ e[j] = "."

Stored(e) == \E i \in 1..Len(subs_blob.data) : subs_blob.data[i] = e

SubscribeSteps ==
    \A p \in Procs :
        LET e == ExpectedAddress(req[p].email)
        IN  /\ (Leaves(p, "start") /\ req[p].handler = "subscribe")
                  => /\ subs_blob' = subs_blob
                     /\ e = <<>> => (pc'[p] = "idle" /\ outcome'[p] = "400:Email requis")
                     /\ (e # <<>> /\ (NoAtSign(e) \/ NoDotAfterAt(e)))
                           => (pc'[p] = "idle" /\ outcome'[p] = "400:Email invalide")
                     /\ Stored(e)
                           => (pc'[p] = "idle" /\ outcome'[p] = "400:Vous etes deja abonne")
                     /\ pc'[p] # "idle"
                           => /\ pc'[p] = "save_subscribers"
                              /\ subscribers'[p] = Append(subs_blob.data, e)
            /\ (Leaves(p, "save_subscribers") /\ req[p].handler = "subscribe")
                  => /\ subs_blob'.data = subscribers[p]
                     /\ subscribers[p][Len(subscribers[p])] = e
                     /\ outcome'[p] = "200:Inscription reussie"

\* C8: a subscribe whose trimmed, lower-cased address is empty, has no "@"
\* or no "." behind it, or is stored already, is answered with an error and
\* writes nothing; an accepted one appends exactly that address and saves.
SubscribeRejects == [][SubscribeSteps]_vars

\* " a@b.c " was subscribed, and "A@b.c" was then refused as subscribed already
SecondCaseRefused ==
    \E p, q \in Procs :
        /\ p # q
        /\ req[q].handler = "subscribe" /\ outcome[q] = "200:Inscription reussie"
        /\ req[q].email = <<" ", "a", "@", "b", ".", "c", " ">>
        /\ req[p].handler = "subscribe" /\ outcome[p] = "400:Vous etes deja abonne"
        /\ req[p].email = <<"A", "@", "b", ".", "c">>

(* ---- C9 ---- *)

FailedResults == {"failed:render", "failed:smtp"}

DeliverySteps ==
    \A p \in Procs :
        /\ Leaves(p, "notify") =>
              /\ posts_blob' = posts_blob
              /\ outcome'[p] \in {"pending", "redirect:index"}
        /\ (pc[p] = "send" /\ attempts'[p] # attempts[p]) =>
              /\ Len(attempts'[p]) = Len(attempts[p]) + 1
              /\ SubSeq(attempts'[p], 1, Len(attempts[p])) = attempts[p]
              /\ attempts'[p][Len(attempts'[p])].to = subscribers[p][Len(attempts'[p])]
              /\ posts_blob' = posts_blob
              /\ outcome'[p] \in {"pending", "redirect:index"}
        /\ Leaves(p, "send") =>
              /\ Len(attempts'[p]) = Len(subscribers[p])
              /\ \A i \in 1..Len(subscribers[p]) : attempts'[p][i].to = subscribers[p][i]
              /\ outcome'[p] = "redirect:index"
              /\ ~mail_env => \A i \in 1..Len(attempts'[p]) :
                                 attempts'[p][i].result \notin {"sent", "failed:smtp"}

\* C9: the add that loaded the subscribers S makes one attempt per entry
\* of S, in the order of S; a failed attempt neither ends the loop nor is
\* repeated, no step of the loop writes db.json, the request ends with the
\* redirect, and without credentials nothing is handed to SMTP.
DeliveryIsolated == [][DeliverySteps]_vars

\* an add has ended with the redirect after a failed attempt for its first
\* subscriber and a delivery to its second
FailureThenDelivery ==
    \E p \in Procs :
        /\ pc[p] = "idle" /\ req[p].handler = "add" /\ outcome[p] = "redirect:index"
        /\ Len(attempts[p]) = 2
        /\ attempts[p][1].result \in FailedResults
        /\ attempts[p][2].result = "sent"
        /\ \E i \in 1..Len(posts_blob.data) : posts_blob.data[i].city = attempts[p][1].subject

(* ---- C10 ---- *)

HasBoth(post) == Has(post, "latitude") /\ Has(post, "longitude")

\* C10: locations() has one entry for each stored post with both
\* coordinates and for no other; its entries are those posts in the reverse
\* of their order in the list of the index page, by ascending datetime.
LocationsReverseOfList ==
    LET geo == SelectSeq(index(posts_blob), HasBoth)
        loc == locations(posts_blob)
    IN  /\ Len(loc) = Cardinality({i \in 1..Len(posts_blob.data) : HasBoth(posts_blob.data[i])})
        /\ Len(loc) = Len(geo)
        /\ \A k \in 1..Len(loc) :
              LET post == geo[Len(geo) + 1 - k]
              IN  /\ loc[k].lat = post.latitude
                  /\ loc[k].lng = post.longitude
                  /\ loc[k].city = post.city
                  /\ loc[k].datetime.v = post.datetime.v
        /\ \A k \in 1..(Len(loc) - 1) : loc[k].datetime.v <= loc[k + 1].datetime.v

\* two posts with coordinates and distinct datetimes are stored next to a
\* post that has a latitude only
GeoAndHalfGeoStored ==
    /\ \E i, j \in 1..Len(posts_blob.data) :
          /\ HasBoth(posts_blob.data[i]) /\ HasBoth(posts_blob.data[j])
          /\ posts_blob.data[i].datetime.v < posts_blob.data[j].datetime.v
    /\ \E k \in 1..Len(posts_blob.data) :
          Has(posts_blob.data[k], "latitude") /\ ~Has(posts_blob.data[k], "longitude")

(* ---- C11 ---- *)

ServerGenerated(key) == key.base = "" /\ key.uid > 0

\* C11: every key that an upload is directed to, by a signed URL or by a
\* form, is generated by the server (a uuid and the extension of the file
\* name), and no two signed URLs are issued for one key.
UploadKeysServerGenerated ==
    /\ \A p \in Procs : body[p] # Unbound => ServerGenerated(body[p].url.key)
    /\ \A p, q \in Procs :
          (p # q /\ body[p] # Unbound /\ body[q] # Unbound)
              => body[p].url.key # body[q].url.key
    /\ \A key \in objects : ServerGenerated(key)

(* ---- C12 ---- *)

ItemUrl(item) == IF DOMAIN item = {"str"} THEN item.str ELSE item.url

ItemDescription(item) == IF DOMAIN item = {"str"} THEN "" ELSE item.description

MediaOf(post) == IF Has(post, "media") THEN post.media ELSE <<>>

MediaUrls(post) == [i \in 1..Len(MediaOf(post)) |-> ItemUrl(MediaOf(post)[i])]

StoredPost(blob, id) ==
    blob.data[CHOOSE i \in 1..Len(blob.data) : blob.data[i].id = id]

\* the positions of the submitted (url, description) pairs that name url
SubmittedFor(form, url) ==
    {j \in 1..Len(form.existing_media_url) :
        j <= Len(form.existing_media_description) /\ form.existing_media_url[j] = url}

MaxOf(S) == CHOOSE x \in S : \A y \in S : y <= x

\* tail holds the submitted new items, in the order of the form
AppendedAsSubmitted(form, tail) ==
    IF form.uploaded_media_url # <<>>
    THEN /\ Len(tail) = Len(form.uploaded_media_url)
         /\ \A i \in 1..Len(tail) :
                /\ tail[i].url = form.uploaded_media_url[i]
                /\ tail[i].description =
                       IF i <= Len(form.uploaded_media_description)
                       THEN form.uploaded_media_description[i] ELSE ""
    ELSE LET Named(f) == f # NoFileName
             named == SelectSeq(form.media, Named)
         IN  /\ Len(tail) = Len(named)
             /\ \A i \in 1..Len(tail) :
                    /\ tail[i].url.key.base = "" /\ tail[i].url.key.uid > 0
                    /\ tail[i].url.key.ext = named[i].ext
                    /\ \A j \in 1..(i - 1) : tail[j].url.key.uid < tail[i].url.key.uid

MediaUpdateSteps ==
    (Leaves(Solo, "save") /\ req[Solo].handler = "edit_post") =>
        LET form   == req[Solo].form
            before == StoredPost(posts_blob, req[Solo].post_id)
            after  == StoredPost(posts_blob', req[Solo].post_id)
            old    == MediaUrls(before)
            n      == Len(old)
        IN  /\ outcome'[Solo] = "redirect:edit_list"
            /\ Len(MediaOf(after)) >= n
            /\ SubSeq(MediaUrls(after), 1, n) = old
            /\ \A i \in 1..n :
                   ItemDescription(after.media[i]) =
                       IF SubmittedFor(form, old[i]) = {}
                       THEN ItemDescription(before.media[i])
                       ELSE form.existing_media_description[MaxOf(SubmittedFor(form, old[i]))]
            /\ AppendedAsSubmitted(form, SubSeq(MediaOf(after), n + 1, Len(MediaOf(after))))

\* C12: at the save of every update of a post, the media urls the post had
\* in the stored document are a prefix of the media urls it has afterwards;
\* an item whose url was submitted carries the description submitted last
\* for it, every other item keeps its description, and the new items of the
\* form follow at the end in the order of the form.
UpdateKeepsMediaPrefix == [][MediaUpdateSteps]_vars

\* an update of the post of the old document has patched the description
\* of its item and has appended the uploaded one behind it
MediaPatchedAndAppended ==
    /\ pc[Solo] = "idle" /\ req[Solo] # NoReq
    /\ req[Solo].handler = "edit_post" /\ outcome[Solo] = "redirect:edit_list"
    /\ req[Solo].form.existing_media_url # <<>>
    /\ req[Solo].form.uploaded_media_url # <<>>
    /\ \E i \in 1..Len(posts_blob.data) :
           /\ posts_blob.data[i].id = req[Solo].post_id
           /\ Has(posts_blob.data[i], "media")
           /\ Len(posts_blob.data[i].media) >= 2
           /\ posts_blob.data[i].media[1] = [url |-> LegacyUrl, description |-> "harbour"]
           /\ posts_blob.data[i].media[Len(posts_blob.data[i].media)].url = PhotoUrl

(* ---- C13 ---- *)

NormalizedShape(item) == DOMAIN item = {"url", "description"}

ExpectedItem(item) ==
    IF DOMAIN item = {"str"} THEN [url |-> item.str, description |-> ""] ELSE item

\* what is stored and what is loaded is normalized as said, and normalizing
\* what is loaded changes nothing
NormalizeIdempotent ==
    /\ \A i \in 1..Len(posts_blob.data) : \A k \in 1..Len(MediaOf(posts_blob.data[i])) :
           LET item == posts_blob.data[i].media[k]
           IN  /\ NormalizeItem(item) = ExpectedItem(item)
               /\ NormalizeItem(NormalizeItem(item)) = NormalizeItem(item)
    /\ \A i \in 1..Len(get_posts(posts_blob)) :
           LET post == get_posts(posts_blob)[i]
           IN  Has(post, "media") => NormalizeMedia(post.media) = post.media

SavedNormalized ==
    Leaves(Solo, "save") =>
        /\ \A j \in 1..Len(posts_blob'.data) :
               \A k \in 1..Len(MediaOf(posts_blob'.data[j])) :
                   NormalizedShape(posts_blob'.data[j].media[k])
        /\ \A i \in 1..Len(posts_blob.data) : \A j \in 1..Len(posts_blob'.data) :
               LET before == posts_blob.data[i]
                   after  == posts_blob'.data[j]
               IN  (/\ before.id = after.id
                    /\ ~(req[Solo].handler = "edit_post" /\ req[Solo].post_id = before.id))
                   => /\ Has(after, "media") = Has(before, "media")
                      /\ MediaOf(after) =
                             [k \in 1..Len(MediaOf(before)) |-> ExpectedItem(before.media[k])]

\* C13: normalization maps a bare url s to {url: s, description: ""} and
\* leaves a normalized item as it is; at every save of a create, an update
\* or a delete, every media entry of the written document is an object
\* {url, description}, and a post that is not the target of the request is
\* written with its old entries normalized.
NormalizationKept == []NormalizeIdempotent /\ [][SavedNormalized]_vars

\* a request about another post has rewritten the bare string of the old
\* document as an object with an empty description
LegacyItemRewritten ==
    /\ pc[Solo] = "idle" /\ req[Solo] # NoReq
    /\ outcome[Solo] \in {"redirect:edit_list", "redirect:index"}
    /\ \/ req[Solo].handler \in {"add", "delete_post"} /\ req[Solo].method = "POST"
       \/ req[Solo].handler = "edit_post" /\ req[Solo].method = "POST" /\ req[Solo].post_id # 1
    /\ \E i \in 1..Len(posts_blob.data) :
           /\ posts_blob.data[i].id = 1
           /\ Has(posts_blob.data[i], "media")
           /\ posts_blob.data[i].media = <<[url |-> LegacyUrl, description |-> ""]>>

(* ---- C14 ---- *)

DeleteSteps ==
    (Leaves(Solo, "save") /\ req[Solo].handler = "delete_post") =>
        LET Other(post) == post.id # req[Solo].post_id
        IN  /\ index(posts_blob') = SelectSeq(index(posts_blob), Other)
            /\ outcome'[Solo] = "redirect:edit_list"
            /\ pc'[Solo] = "idle"

\* C14: at the save of delete(id), the list read afterwards is the list
\* read before without the posts whose id is id, every other post with
\* its fields and at its place among the others; the request ends with the
\* redirect to the edit list, also when no post has the id.
DeleteRemovesOnlyId == [][DeleteSteps]_vars

\* a delete has removed a post that was not the first of the list and has
\* left another one
DeletedBehindAnother ==
    /\ pc[Solo] = "idle" /\ req[Solo] # NoReq
    /\ req[Solo].handler = "delete_post" /\ outcome[Solo] = "redirect:edit_list"
    /\ uuid_next > req[Solo].post_id
    /\ req[Solo].post_id \notin Ids(posts_blob.data)
    /\ posts_blob.data # <<>>
    /\ req[Solo].post_id = 1 /\ received = 1

(* ---- C16 ---- *)

\* C16: the document written by save_posts(get_posts()) reads as the same
\* list as the document before it, post by post with the same fields, media
\* and order, and a second round trip writes the document of the first.
RoundTripFixed ==
    LET once  == save_posts(get_posts(posts_blob))
        twice == save_posts(get_posts(once))
    IN  /\ index(once) = index(posts_blob)
        /\ index(twice) = index(once)
        /\ twice = once

\* the delete of an id that was never drawn has saved what it loaded: the
\* document is not empty and is stored in the written form
RoundTripPerformed ==
    /\ pc[Solo] = "idle" /\ req[Solo] # NoReq
    /\ req[Solo].handler = "delete_post" /\ outcome[Solo] = "redirect:edit_list"
    /\ req[Solo].post_id >= uuid_next
    /\ posts_blob.data # <<>>
    /\ \A i \in 1..Len(posts_blob.data) : posts_blob.data[i].datetime.kind = "sp"

(* ---- C18 ---- *)

\* C18: no record of the stored posts document has the field
\* display_datetime.
NoDisplayTextStored ==
    \A i \in 1..Len(posts_blob.data) : ~Has(posts_blob.data[i], "display_datetime")

(* ---- C17 ---- *)

UnsubscribeSteps ==
    \A p \in Procs :
        LET e == ExpectedAddress(req[p].email)
            Other(x) == x # e
        IN  /\ (Leaves(p, "start") /\ req[p].handler = "unsubscribe")
                  => /\ subs_blob' = subs_blob
                     /\ (e = <<>> \/ ~Stored(e))
                           => (pc'[p] = "idle" /\ outcome'[p] = "redirect:index")
                     /\ (e # <<>> /\ Stored(e))
                           => /\ pc'[p] = "save_subscribers"
                              /\ subscribers'[p] = SelectSeq(subs_blob.data, Other)
            /\ (Leaves(p, "save_subscribers") /\ req[p].handler = "unsubscribe")
                  => /\ subs_blob'.data = subscribers[p]
                     /\ \A i \in 1..Len(subs_blob'.data) : subs_blob'.data[i] # e
                     /\ outcome'[p] = "redirect:index?unsubscribe_success"

\* C17: an unsubscribe whose trimmed, lower-cased address is stored saves
\* the list it loaded without that address, the other addresses in their
\* order; one whose address is empty or not stored ends with the plain
\* redirect and writes nothing.
UnsubscribeRemoves == [][UnsubscribeSteps]_vars

\* "A@b.c" was unsubscribed from a list that held another address, which
\* is still stored
UnsubscribedBesideAnother ==
    \E p \in Procs :
        /\ req[p].handler = "unsubscribe"
        /\ req[p].email = <<"A", "@", "b", ".", "c">>
        /\ outcome[p] = "redirect:index?unsubscribe_success"
        /\ subs_blob.data = <<<<"c", "@", "b", ".", "a">>>>

(* ---- C15 ---- *)

Unparseable(form) ==
    form.date \notin {"2024-05-01", "2024-05-02"} \/ form.time \notin {"10:00"}

RefusedCreate(p) ==
    /\ req[p].handler = "add" /\ req[p].method = "POST"
    /\ Unparseable(req[p].form)

CreateDateSteps ==
    \A p \in Procs :
        (Leaves(p, "start") /\ RefusedCreate(p))
            => /\ pc'[p] = "idle"
               /\ outcome'[p] = "error:500"
               /\ posts_blob' = posts_blob
               /\ attempts'[p] = <<>>

\* a create without a readable date and time is never at a save, at the
\* load of the subscribers or in the loop, and has attempted no delivery
RefusedCreateStopped ==
    \A p \in Procs :
        RefusedCreate(p) => /\ pc[p] \in {"start", "idle"}
                            /\ attempts[p] = <<>>
                            /\ outcome[p] \in {"pending", "error:500"}

\* C15: a create whose date or time is missing or unreadable ends with an
\* error at its first step: the posts document is not written, the request
\* never reaches its save or its notifications, and it attempts no delivery.
CreateRejectsBadDate == []RefusedCreateStopped /\ [][CreateDateSteps]_vars

\* a create without a date has failed while a post and subscribers are stored
BadDateRefused ==
    \E p \in Procs :
        /\ req[p].handler = "add" /\ req[p].form.date = None
        /\ pc[p] = "idle" /\ outcome[p] = "error:500"
        /\ posts_blob.data # <<>>
        /\ subs_blob.data # <<>>

(* ---- C19 ---- *)

FanSteps ==
    \A p \in Procs :
        /\ (pc'[p] = "notify" /\ pc[p] # "notify")
              => /\ pc[p] = "save" /\ req[p].handler = "add"
                 /\ new_post[p].id \in Ids(posts_blob'.data)
        /\ (pc'[p] = "send" /\ pc[p] # "send")
              => /\ pc[p] = "notify"
                 /\ subscribers'[p] = subs_blob.data
                 /\ attempts'[p] = <<>>
        /\ attempts'[p] # attempts[p]
              => \/ attempts'[p] = <<>>
                 \/ /\ pc[p] = "send" /\ req[p].handler = "add"
                    /\ Len(attempts'[p]) = Len(attempts[p]) + 1
                    /\ SubSeq(attempts'[p], 1, Len(attempts[p])) = attempts[p]
                    /\ attempts'[p][Len(attempts'[p])].to = subscribers[p][Len(attempts'[p])]
                    /\ attempts'[p][Len(attempts'[p])].subject = new_post[p].city
        /\ req'[p].handler \in {"edit_post", "delete_post"} => attempts'[p] = <<>>

\* C19: a request enters the load of the subscribers only from the save of
\* a create, which has written the new post into the posts document; it
\* enters the loop only from that load, with the addresses stored at that
\* moment; deliveries are attempted only in the loop of a create, one
\* address after the other, and never by an update or a delete.
FanOutAfterSave == [][FanSteps]_vars

\* a create has saved its post and attempted its deliveries, and an update
\* of that post by the other worker has ended without any
DeliveredAfterSave ==
    \E p, q \in Procs :
        /\ p # q
        /\ req[p].handler = "add" /\ outcome[p] = "redirect:index"
        /\ Len(attempts[p]) >= 1
        /\ req[q].handler = "edit_post" /\ outcome[q] = "redirect:edit_list"
        /\ attempts[q] = <<>>

(* ---- C20 ---- *)

\* C20 as stated: the id of a completed delete is in no later posts document.
DeletionPermanent ==
    \A p \in Procs :
        (req[p].handler = "delete_post" /\ outcome[p] = "redirect:edit_list")
            => req[p].post_id \notin Ids(posts_blob.data)

\* id is neither stored nor in the list of a request that is about to save
Gone(id) ==
    /\ id \notin Ids(posts_blob.data)
    /\ \A p \in Procs : id \notin Ids(posts[p])

GoneSteps ==
    /\ \A p \in Procs :
           (Leaves(p, "save") /\ req[p].handler = "delete_post")
               => req[p].post_id \notin Ids(posts_blob'.data)
    /\ \A id \in 1..(uuid_next - 1) : Gone(id) => Gone(id)'

\* C20: the save of delete(id) writes a document without the id; an id
\* that has been drawn and is neither stored nor in the list that a request
\* in flight is about to save is in no later posts document.  Until then a
\* request that loaded the posts before the delete can store the post again.
DeletedStaysGone == [][GoneSteps]_vars

\* a post was deleted, and the update of it that was sent while it was
\* stored has found nothing
UpdateAfterDeleteFindsNothing ==
    \E p, q \in Procs :
        /\ p # q
        /\ req[p].handler = "delete_post" /\ outcome[p] = "redirect:edit_list"
        /\ req[q].handler = "edit_post" /\ req[q].post_id = req[p].post_id
        /\ outcome[q] = "redirect:index"
        /\ Gone(req[p].post_id)

====
